---- MODULE Spec2Model ----
(***************************************************************************)
(* The quiz state machine of the 3D bone-recognition block                 *)
(* (src/src/block.tsx; src/unnamed/part_000 holds the same handlers).      *)
(* The state is the React state of the Block component, one action per UI  *)
(* event that reaches a handler, and the completion effect runs as part of *)
(* the commit of every action (useEffect with deps [gameState, score]).    *)
(***************************************************************************)
EXTENDS Naturals, Integers, Sequences, FiniteSets, TLC

VARIABLES
    gameState,        \* 'playing' | 'finished'
    userAnswers,      \* { [boneId]: label }
    availableLabels,  \* string[] (the label pool, in display order)
    score,            \* number
    results,          \* { [boneId]: boolean }
    selectedBone,     \* string | null
    embedded,         \* TRUE iff the block runs in a frame (window.parent # window)
    posted,           \* the messages posted by the effect of the last commit
    lastEvent,        \* the UI event whose handlers ran last
    replaced,         \* the pending selection the last anchor click overwrote
    scoreMessage,     \* the message under the score, null while it is not shown
    viewport,         \* the source variant that runs and the state of its model loader
    other             \* the state of the Block of src/unnamed/part_000 when it is
                      \* run beside the one of block.tsx, null when it is not

vars == <<gameState, userAnswers, availableLabels, score, results,
          selectedBone, embedded, posted, lastEvent, replaced, scoreMessage,
          viewport, other>>

----------------------------------------------------------------------------
(* Bounds of the exploration *)

\* the user clicks the anchors bones[1..MaxBones] ...
MaxBones == 3
\* ... and the label buttons that carry the names of bones[1..MaxLabels]
MaxLabels == 2
\* the shuffles tried at mount and at reset: rotations by 0..MaxShuffle
MaxShuffle == 1
\* the user of ScenarioSpec takes for an anchor its own label or the label
\* of an anchor at most MaxReach places away in bones
MaxReach == 1
\* the anchors of DirectSpec and of LoaderSpec: bones[1..MaxCallBones]
MaxCallBones == 2

\* maxScore: 100, the largest score
MaxScore == 100

----------------------------------------------------------------------------
(* Constants of the program *)

null == "null"
undefined == "undefined"

bones == <<
    [id |-> "skull",    name |-> "Crâne"],
    [id |-> "clavicle", name |-> "Clavicule"],
    [id |-> "sternum",  name |-> "Sternum"],
    [id |-> "ribs",     name |-> "Côtes"],
    [id |-> "humerus",  name |-> "Humérus"],
    [id |-> "radius",   name |-> "Radius"],
    [id |-> "ulna",     name |-> "Cubitus"],
    [id |-> "spine",    name |-> "Colonne vertébrale"],
    [id |-> "pelvis",   name |-> "Bassin"],
    [id |-> "femur",    name |-> "Fémur"],
    [id |-> "tibia",    name |-> "Tibia"],
    [id |-> "fibula",   name |-> "Péroné"] >>

BoneIds == {bones[i].id : i \in 1..Len(bones)}
Labels == {bones[i].name : i \in 1..Len(bones)}

\* bones.map(bone => bone.name)
boneNames == [i \in 1..Len(bones) |-> bones[i].name]

\* the canonical label of an anchor
NameOf(b) == bones[CHOOSE i \in 1..Len(bones) : bones[i].id = b].name

\* The UTF-16 code units of the labels: Array.prototype.sort() without a
\* comparator orders strings by code unit.
CodeUnits(s) ==
    CASE s = "Crâne"     -> <<67, 114, 226, 110, 101>>
      [] s = "Clavicule" -> <<67, 108, 97, 118, 105, 99, 117, 108, 101>>
      [] s = "Sternum"   -> <<83, 116, 101, 114, 110, 117, 109>>
      [] s = "Côtes"     -> <<67, 244, 116, 101, 115>>
      [] s = "Humérus"   -> <<72, 117, 109, 233, 114, 117, 115>>
      [] s = "Radius"    -> <<82, 97, 100, 105, 117, 115>>
      [] s = "Cubitus"   -> <<67, 117, 98, 105, 116, 117, 115>>
      [] s = "Colonne vertébrale" ->
            <<67, 111, 108, 111, 110, 110, 101, 32, 118, 101, 114, 116, 233,
              98, 114, 97, 108, 101>>
      [] s = "Bassin"    -> <<66, 97, 115, 115, 105, 110>>
      [] s = "Fémur"     -> <<70, 233, 109, 117, 114>>
      [] s = "Tibia"     -> <<84, 105, 98, 105, 97>>
      [] s = "Péroné"    -> <<80, 233, 114, 111, 110, 233>>

----------------------------------------------------------------------------
(* JavaScript helpers *)

\* obj[key]: undefined when the object has no such property
Get(obj, key) == IF key \in DOMAIN obj THEN obj[key] ELSE undefined

\* { ...obj, [key]: value }
Put(obj, key, value) ==
    [k \in DOMAIN obj \cup {key} |-> IF k = key THEN value ELSE obj[k]]

\* const o = { ...obj }; delete o[key]
Delete(obj, key) == [k \in DOMAIN obj \ {key} |-> obj[k]]

\* the empty object {}
EmptyObject == [k \in {} |-> undefined]

\* a < b as JavaScript compares two strings (code unit by code unit)
RECURSIVE SeqLess(_, _)
SeqLess(a, b) ==
    IF b = <<>> THEN FALSE
    ELSE IF a = <<>> THEN TRUE
    ELSE IF Head(a) # Head(b) THEN Head(a) < Head(b)
    ELSE SeqLess(Tail(a), Tail(b))

StringLess(a, b) == SeqLess(CodeUnits(a), CodeUnits(b))

\* inserts x into the sorted sequence s, after the elements equal to it
RECURSIVE Insert(_, _)
Insert(s, x) ==
    IF s = <<>> THEN <<x>>
    ELSE IF StringLess(x, Head(s)) THEN <<x>> \o s
    ELSE <<Head(s)>> \o Insert(Tail(s), x)

\* arr.sort(): ascending by code units (stable)
RECURSIVE Sort(_)
Sort(arr) ==
    IF arr = <<>> THEN <<>>
    ELSE Insert(Sort(SubSeq(arr, 1, Len(arr) - 1)), arr[Len(arr)])

\* arr.filter(l => l !== label)
FilterOut(arr, label) == SelectSeq(arr, LAMBDA l : l # label)

Rotate(arr, k) ==
    [i \in 1..Len(arr) |-> arr[((i - 1 + k) % Len(arr)) + 1]]

\* arr.sort(() => Math.random() - 0.5): some permutation of arr, which one
\* depends on the random numbers; the outcomes explored are the rotations.
Shuffles(arr) == {Rotate(arr, k) : k \in 0..MaxShuffle}

\* Math.floor in the place of Math.round
MathRound_Floor(num, den) == num \div den

\* Math.round(num / den) for num >= 0, den > 0 (halves round up)
MathRound(num, den) == (2 * num + den) \div (2 * den)

----------------------------------------------------------------------------
(* Completion effect *)

CompletionMessage(s) ==
    [type |-> "BLOCK_COMPLETION", blockId |-> "3d-bone-recognition-game",
     completed |-> TRUE, score |-> s, maxScore |-> 100]

\* the context a postMessage target denotes: window.parent of a top-level
\* page is the page's own window
Receiver(target) ==
    IF target = "window.parent" /\ embedded THEN "host" ELSE "document"

\* the effect body, run with the committed gameState and score
CompletionEffect(gs, sc) ==
    IF gs = "finished"
    THEN << [target |-> "window", to |-> Receiver("window"),
             data |-> CompletionMessage(sc)],
            [target |-> "window.parent", to |-> Receiver("window.parent"),
             data |-> CompletionMessage(sc)] >>
    ELSE <<>>

\* the effect without its dependency array: it runs after every render
EffectOutput_EveryRender(old, new) ==
    CompletionEffect(new.gameState, new.score)

\* useEffect(..., [gameState, score]): after a commit the effect runs only
\* if one of its dependencies changed
EffectOutput(old, new) ==
    IF new.gameState # old.gameState \/ new.score # old.score
    THEN CompletionEffect(new.gameState, new.score)
    ELSE <<>>

----------------------------------------------------------------------------
(* Handlers.  c is the state of the render whose closures the handler      *)
(* reads, p the state pending in the event's batch of updates; the result  *)
(* is p with the handler's updates applied (setX(v) replaces, setX(prev => *)
(* f(prev)) applies f to the pending value).                               *)

Current ==
    [gameState |-> gameState, userAnswers |-> userAnswers,
     availableLabels |-> availableLabels, score |-> score,
     results |-> results, selectedBone |-> selectedBone]

\* the anchor click without its phase guard, re-opening a finished game
selectAnchor_Reopens(c, p, boneId) ==
    [p EXCEPT !.selectedBone = boneId, !.gameState = "playing"]

\* the anchor click that keeps an earlier pending selection
selectAnchor_KeepsFirst(c, p, boneId) ==
    IF c.gameState = "playing" /\ c.selectedBone = null
    THEN [p EXCEPT !.selectedBone = boneId]
    ELSE p

\* the anchor click without its phase guard
selectAnchor_NoPhaseGuard(c, p, boneId) ==
    [p EXCEPT !.selectedBone = boneId]

\* the anchor click that also takes the label off the anchor it selects
selectAnchor_ClearsLabel(c, p, boneId) ==
    IF c.gameState = "playing"
    THEN [p EXCEPT !.selectedBone = boneId,
                   !.userAnswers = Delete(@, boneId),
                   !.availableLabels =
                       IF Get(c.userAnswers, boneId) # undefined
                       THEN Sort(Append(@, Get(c.userAnswers, boneId)))
                       ELSE @]
    ELSE p

\* onClick={() => gameState === 'playing' && setSelectedBone(bone.id)}
selectAnchor(c, p, boneId) ==
    IF c.gameState = "playing"
    THEN [p EXCEPT !.selectedBone = boneId]
    ELSE p

\* the label click that leaves the label in the pool
handleLabelClick_KeepsLabel(c, p, label) ==
    IF c.selectedBone # null /\ c.gameState = "playing"
    THEN [p EXCEPT !.userAnswers = Put(@, c.selectedBone, label),
                   !.selectedBone = null]
    ELSE p

\* the label click that leaves the selection pending
handleLabelClick_KeepsSelection(c, p, label) ==
    IF c.selectedBone # null /\ c.gameState = "playing"
    THEN [p EXCEPT !.userAnswers = Put(@, c.selectedBone, label),
                   !.availableLabels = FilterOut(@, label)]
    ELSE p

\* the label click without its phase guard
handleLabelClick_NoPhaseGuard(c, p, label) ==
    IF c.selectedBone # null
    THEN [p EXCEPT !.userAnswers = Put(@, c.selectedBone, label),
                   !.availableLabels = FilterOut(@, label),
                   !.selectedBone = null]
    ELSE p

handleLabelClick(c, p, label) ==
    IF c.selectedBone # null /\ c.gameState = "playing"
    THEN [p EXCEPT !.userAnswers = Put(@, c.selectedBone, label),
                   !.availableLabels = FilterOut(@, label),
                   !.selectedBone = null]
    ELSE p

\* the removal that appends the label without sorting the pool
removeBoneAnswer_Unsorted(c, p, boneId) ==
    LET removedLabel == Get(c.userAnswers, boneId) IN
    IF removedLabel # undefined
    THEN [p EXCEPT !.availableLabels = Append(@, removedLabel),
                   !.userAnswers = Delete(@, boneId)]
    ELSE p

\* the removal that gives the label back but leaves it on the anchor
removeBoneAnswer_KeepsAnswer(c, p, boneId) ==
    LET removedLabel == Get(c.userAnswers, boneId) IN
    IF removedLabel # undefined
    THEN [p EXCEPT !.availableLabels = Sort(Append(@, removedLabel))]
    ELSE p

\* the removal that does not give the label back to the pool
removeBoneAnswer_DropsLabel(c, p, boneId) ==
    LET removedLabel == Get(c.userAnswers, boneId) IN
    IF removedLabel # undefined
    THEN [p EXCEPT !.userAnswers = Delete(@, boneId)]
    ELSE p

removeBoneAnswer(c, p, boneId) ==
    LET removedLabel == Get(c.userAnswers, boneId) IN
    IF removedLabel # undefined
    THEN [p EXCEPT !.availableLabels = Sort(Append(@, removedLabel)),
                   !.userAnswers = Delete(@, boneId)]
    ELSE p

\* the sphere click without its phase guard
spherePointClick_NoPhaseGuard(c, p, boneId) ==
    IF Get(c.userAnswers, boneId) # undefined
    THEN removeBoneAnswer(c, p, boneId)
    ELSE p

\* onClick={() => gameState === 'playing' && userAnswer && onRemove(bone.id)}
spherePointClick(c, p, boneId) ==
    IF c.gameState = "playing" /\ Get(c.userAnswers, boneId) # undefined
    THEN removeBoneAnswer(c, p, boneId)
    ELSE p

\* the scoring loop that counts every labelled anchor as correct
RECURSIVE Scored_AnsweredIsCorrect(_, _)
Scored_AnsweredIsCorrect(answers, n) ==
    IF n = 0 THEN [newResults |-> EmptyObject, correctCount |-> 0]
    ELSE LET acc == Scored_AnsweredIsCorrect(answers, n - 1)
             bone == bones[n]
             isCorrect == (Get(answers, bone.id) # undefined)
         IN [newResults |-> Put(acc.newResults, bone.id, isCorrect),
             correctCount |-> IF isCorrect THEN acc.correctCount + 1
                              ELSE acc.correctCount]

\* bones.forEach(...) of checkAnswers, over bones[1..n]
RECURSIVE Scored(_, _)
Scored(answers, n) ==
    IF n = 0 THEN [newResults |-> EmptyObject, correctCount |-> 0]
    ELSE LET acc == Scored(answers, n - 1)
             bone == bones[n]
             userAnswer == Get(answers, bone.id)
             isCorrect == (userAnswer = bone.name)
         IN [newResults |-> Put(acc.newResults, bone.id, isCorrect),
             correctCount |-> IF isCorrect THEN acc.correctCount + 1
                              ELSE acc.correctCount]

\* the check that also drops the pending selection
checkAnswers_ClearsSelection(c, p) ==
    LET s == Scored(c.userAnswers, Len(bones))
        finalScore == MathRound(s.correctCount * 100, Len(bones))
    IN [p EXCEPT !.results = s.newResults,
                 !.score = finalScore,
                 !.gameState = "finished",
                 !.selectedBone = null]

\* the check that a second call takes back
checkAnswers_Toggles(c, p) ==
    LET s == Scored(c.userAnswers, Len(bones))
        finalScore == MathRound(s.correctCount * 100, Len(bones))
    IN IF c.gameState = "finished"
       THEN [p EXCEPT !.results = EmptyObject,
                      !.score = 0,
                      !.gameState = "playing"]
       ELSE [p EXCEPT !.results = s.newResults,
                      !.score = finalScore,
                      !.gameState = "finished"]

\* the check that refuses an empty assignment map
checkAnswers_RequiresAnswer(c, p) ==
    LET s == Scored(c.userAnswers, Len(bones))
        finalScore == MathRound(s.correctCount * 100, Len(bones))
    IN IF DOMAIN c.userAnswers = {}
       THEN p
       ELSE [p EXCEPT !.results = s.newResults,
                      !.score = finalScore,
                      !.gameState = "finished"]

checkAnswers(c, p) ==
    LET s == Scored(c.userAnswers, Len(bones))
        finalScore == MathRound(s.correctCount * 100, Len(bones))
    IN [p EXCEPT !.results = s.newResults,
                 !.score = finalScore,
                 !.gameState = "finished"]

\* the reset that forgets to clear the results
resetGame_KeepsResults(c, p, shuffled) ==
    [p EXCEPT !.gameState = "playing",
              !.userAnswers = EmptyObject,
              !.availableLabels = shuffled,
              !.score = 0,
              !.selectedBone = null]

\* the reset that forgets to clear the score
resetGame_KeepsScore(c, p, shuffled) ==
    [p EXCEPT !.gameState = "playing",
              !.userAnswers = EmptyObject,
              !.availableLabels = shuffled,
              !.results = EmptyObject,
              !.selectedBone = null]

\* shuffled is the outcome of bones.map(bone => bone.name).sort(random)
resetGame(c, p, shuffled) ==
    [p EXCEPT !.gameState = "playing",
              !.userAnswers = EmptyObject,
              !.availableLabels = shuffled,
              !.score = 0,
              !.results = EmptyObject,
              !.selectedBone = null]

\* the five messages of getScoreMessage; the emoji that ends each string is
\* written as its code point
MessageExcellent == "Excellent ! Vous maîtrisez parfaitement l'anatomie ! U+1F3C6"
MessageTresBien == "Très bien ! Vous avez de bonnes connaissances anatomiques ! U+1F44F"
MessageBien == "Bien ! Continuez à étudier pour vous améliorer ! U+1F4DA"
MessagePassable == "Passable. Il faut réviser un peu plus ! U+1F4AA"
MessageEtudier == "Il faut étudier davantage l'anatomie ! Ne vous découragez pas ! U+1F4D6"

\* the score message with the thresholds excluded
getScoreMessage_Exclusive(s) ==
    IF s > 90 THEN MessageExcellent
    ELSE IF s > 75 THEN MessageTresBien
    ELSE IF s > 60 THEN MessageBien
    ELSE IF s > 40 THEN MessagePassable
    ELSE MessageEtudier

getScoreMessage(s) ==
    IF s >= 90 THEN MessageExcellent
    ELSE IF s >= 75 THEN MessageTresBien
    ELSE IF s >= 60 THEN MessageBien
    ELSE IF s >= 40 THEN MessagePassable
    ELSE MessageEtudier

\* {gameState === 'finished' && ( ... {getScoreMessage(score)} ... )}
ScoreDisplay(s) ==
    IF s.gameState = "finished" THEN getScoreMessage(s.score) ELSE null

----------------------------------------------------------------------------
(* The Block of src/unnamed/part_000: its state is a record (draggedLabel  *)
(* is declared there and never set), its handlers take and give such       *)
(* records; bones, the effect and the helpers are those of block.tsx, the  *)
(* two files having the same text for them.                                *)

\* the useState initial values; shuffled is the outcome of the random sort
part000_Initial(shuffled) ==
    [gameState |-> "playing", userAnswers |-> EmptyObject,
     draggedLabel |-> null, availableLabels |-> shuffled, score |-> 0,
     results |-> EmptyObject, selectedBone |-> null, posted |-> <<>>]

\* onClick={() => gameState === 'playing' && setSelectedBone(bone.id)}
part000_selectAnchor(c, p, boneId) ==
    IF c.gameState = "playing"
    THEN [p EXCEPT !.selectedBone = boneId]
    ELSE p

part000_handleLabelClick(c, p, label) ==
    IF c.selectedBone # null /\ c.gameState = "playing"
    THEN [p EXCEPT !.userAnswers = Put(@, c.selectedBone, label),
                   !.availableLabels = FilterOut(@, label),
                   !.selectedBone = null]
    ELSE p

\* the removal of part_000 that puts the label at the end of the pool
part000_removeBoneAnswer_Unsorted(c, p, boneId) ==
    LET removedLabel == Get(c.userAnswers, boneId) IN
    IF removedLabel # undefined
    THEN [p EXCEPT !.availableLabels = Append(@, removedLabel),
                   !.userAnswers = Delete(@, boneId)]
    ELSE p

part000_removeBoneAnswer(c, p, boneId) ==
    LET removedLabel == Get(c.userAnswers, boneId) IN
    IF removedLabel # undefined
    THEN [p EXCEPT !.availableLabels = Sort(Append(@, removedLabel)),
                   !.userAnswers = Delete(@, boneId)]
    ELSE p

\* onClick={() => gameState === 'playing' && userAnswer && onRemove(bone.id)}
part000_spherePointClick(c, p, boneId) ==
    IF c.gameState = "playing" /\ Get(c.userAnswers, boneId) # undefined
    THEN part000_removeBoneAnswer(c, p, boneId)
    ELSE p

part000_checkAnswers(c, p) ==
    LET s == Scored(c.userAnswers, Len(bones))
        finalScore == MathRound(s.correctCount * 100, Len(bones))
    IN [p EXCEPT !.results = s.newResults,
                 !.score = finalScore,
                 !.gameState = "finished"]

part000_resetGame(c, p, shuffled) ==
    [p EXCEPT !.gameState = "playing",
              !.userAnswers = EmptyObject,
              !.availableLabels = shuffled,
              !.score = 0,
              !.results = EmptyObject,
              !.selectedBone = null]

\* the commit of part_000: the pending state, and what its effect posts
part000_Commit(q) ==
    other' = [q EXCEPT !.posted = EffectOutput(other, q)]

----------------------------------------------------------------------------
(* The 3D viewport: which elements of the canvas are mounted in each state *)
(* of the model loader ("loading", "loaded", "failed")                     *)

\* the two source files
Variants == {"block.tsx", "part_000"}

\* the elements inside the <Suspense> of the canvas: block.tsx wraps the
\* model alone, part_000 wraps the model and the bone points
SuspenseChildren(variant) ==
    IF variant = "block.tsx" THEN {"SkeletonModel"}
    ELSE {"SkeletonModel", "BonePoints"}

\* the elements inside the error boundary: the model alone in both files
BoundaryChildren(variant) == {"SkeletonModel"}

\* every model that loads suspends its <Suspense>
Suspends_EveryVariant(v) == v.state = "loading"

\* SkeletonModel suspends while it loads: in block.tsx useGLTF is called in
\* the render; in part_000 the load runs in an effect and isLoading is
\* local state, so the render never suspends
Suspends(v) == v.variant = "block.tsx" /\ v.state = "loading"

\* SkeletonModel throws in its render: block.tsx throws when modelError is
\* set; part_000 renders the fallback skeleton itself
Throws(v) == v.variant = "block.tsx" /\ v.state = "failed"

\* the element is in the scene, not replaced by a fallback
Mounted(element, v) ==
    /\ ~(Suspends(v) /\ element \in SuspenseChildren(v.variant))
    /\ ~(Throws(v) /\ element \in BoundaryChildren(v.variant))

----------------------------------------------------------------------------
(* UI events: the handlers of one event run in one batch, then React       *)
(* commits the pending state and runs the effect                           *)

CommitBlock(p, event) ==
    /\ gameState' = p.gameState
    /\ userAnswers' = p.userAnswers
    /\ availableLabels' = p.availableLabels
    /\ score' = p.score
    /\ results' = p.results
    /\ selectedBone' = p.selectedBone
    /\ posted' = EffectOutput(Current, p)
    /\ lastEvent' = event
    /\ scoreMessage' = ScoreDisplay(p)
    /\ replaced' = IF event[1] \in {"areaClick", "sphereClick", "selectAnchor"}
                      /\ gameState = "playing"
                   THEN selectedBone
                   ELSE IF event[1] \in {"resetClick", "resetGame"}
                        THEN null ELSE replaced
    /\ UNCHANGED <<embedded, viewport>>

\* the commit of an event given to block.tsx alone
Commit(p, event) ==
    /\ CommitBlock(p, event)
    /\ UNCHANGED other

\* a click on the invisible selection area of an anchor, beside its sphere
AreaClick(boneId) ==
    /\ Mounted("BonePoints", viewport)
    /\ Commit(selectAnchor(Current, Current, boneId), <<"areaClick", boneId>>)

\* a click on the sphere of an anchor: the ray crosses the selection area
\* around it first, and both onClick handlers run in the same event
SphereClick(boneId) ==
    LET p1 == selectAnchor(Current, Current, boneId)
        p2 == spherePointClick(Current, p1, boneId)
    IN /\ Mounted("BonePoints", viewport)
       /\ Commit(p2, <<"sphereClick", boneId>>)

\* the anchor whose x button gave the label back in the event just before,
\* null when the event just before did no such thing
JustRemovedFrom(label) ==
    IF lastEvent[1] = "removeClick" /\ lastEvent[3] = label
    THEN lastEvent[2]
    ELSE null

\* a click on a label button: one button per available label,
\* disabled={!selectedBone}
LabelClick(label) ==
    /\ selectedBone # null
    /\ \E i \in 1..Len(availableLabels) : availableLabels[i] = label
    /\ Commit(handleLabelClick(Current, Current, label),
              <<"labelClick", label, JustRemovedFrom(label)>>)

\* the x button of a placed answer, in the side panel outside the canvas:
\* rendered while playing, one per entry of userAnswers
RemoveButtonRendered(boneId) ==
    /\ gameState = "playing"
    /\ boneId \in DOMAIN userAnswers

\* a click on the x button of a placed answer
RemoveClick(boneId) ==
    /\ RemoveButtonRendered(boneId)
    /\ Commit(removeBoneAnswer(Current, Current, boneId),
              <<"removeClick", boneId, Get(userAnswers, boneId)>>)

\* the button "Vérifier les réponses" of the side panel, outside the canvas:
\* rendered while playing, disabled={Object.keys(userAnswers).length === 0}
CheckButtonEnabled ==
    /\ gameState = "playing"
    /\ DOMAIN userAnswers # {}

\* a click on "Vérifier les réponses"
CheckClick ==
    /\ CheckButtonEnabled
    /\ Commit(checkAnswers(Current, Current), <<"checkClick">>)

\* a click on "Rejouer": rendered while finished
ResetClick ==
    /\ gameState = "finished"
    /\ \E shuffled \in Shuffles(boneNames) :
          Commit(resetGame(Current, Current, shuffled), <<"resetClick">>)

\* the parent re-renders the block (new props): no handler runs
Rerender ==
    Commit(Current, <<"rerender">>)

----------------------------------------------------------------------------
(* The block driven by a user who clicks the first MaxBones anchors and    *)
(* the buttons of the first MaxLabels labels                               *)

ClickBones == {bones[i].id : i \in 1..MaxBones}
ClickLabels == {bones[i].name : i \in 1..MaxLabels}

\* the anchors of the direct calls, and of the clicks while the model loads
CallBones == {bones[i].id : i \in 1..MaxCallBones}

Init ==
    /\ gameState = "playing"
    /\ userAnswers = EmptyObject
    /\ availableLabels \in Shuffles(boneNames)
    /\ score = 0
    /\ results = EmptyObject
    /\ selectedBone = null
    /\ embedded \in BOOLEAN
    /\ posted = CompletionEffect(gameState, score)
    /\ lastEvent = <<"mount">>
    /\ replaced = null
    /\ scoreMessage = ScoreDisplay(Current)
    /\ viewport = [variant |-> "block.tsx", state |-> "loading"]
    /\ other = null

Next ==
    \/ \E b \in ClickBones : AreaClick(b)
    \/ \E b \in ClickBones : SphereClick(b)
    \/ \E l \in ClickLabels : LabelClick(l)
    \/ \E b \in ClickBones : RemoveClick(b)
    \/ CheckClick
    \/ ResetClick
    \/ Rerender

Spec == Init /\ [][Next]_vars

----------------------------------------------------------------------------
(* The block driven by a user who labels the anchors one after the other,  *)
(* in the order of bones, and confuses an anchor only with its neighbours  *)

Unanswered == {i \in 1..Len(bones) : bones[i].id \notin DOMAIN userAnswers}

\* the next anchor such a user selects
NextBone == bones[CHOOSE i \in Unanswered : \A j \in Unanswered : i <= j].id

IndexOf(b) == CHOOSE i \in 1..Len(bones) : bones[i].id = b

\* the labels such a user takes for anchor b
NearLabels(b) ==
    {bones[j].name : j \in {k \in 1..Len(bones) :
                              /\ k <= IndexOf(b) + MaxReach
                              /\ IndexOf(b) <= k + MaxReach}}

OrderedAreaClick ==
    /\ gameState = "playing"
    /\ selectedBone = null
    /\ Unanswered # {}
    /\ AreaClick(NextBone)

OrderedLabelClick ==
    /\ selectedBone # null
    /\ \E l \in NearLabels(selectedBone) : LabelClick(l)

ScenarioNext ==
    \/ OrderedAreaClick
    \/ OrderedLabelClick
    \/ CheckClick
    \/ ResetClick

ScenarioSpec == Init /\ [][ScenarioNext]_vars

----------------------------------------------------------------------------
(* The score message alone: the finished screen rendered for every score   *)
(* of 0..MaxScore, whether or not a game of 12 anchors can end with it.    *)

MessageInit ==
    /\ gameState = "finished"
    /\ userAnswers = EmptyObject
    /\ availableLabels = boneNames
    /\ score \in 0..MaxScore
    /\ results = Scored(userAnswers, Len(bones)).newResults
    /\ selectedBone = null
    /\ embedded \in BOOLEAN
    /\ posted = CompletionEffect(gameState, score)
    /\ lastEvent = <<"mount">>
    /\ replaced = null
    /\ scoreMessage = ScoreDisplay(Current)
    /\ viewport = [variant |-> "block.tsx", state |-> "loading"]
    /\ other = null

MessageSpec == MessageInit /\ [][Rerender]_vars

----------------------------------------------------------------------------
(* The quiz while the model loads, has loaded or has failed to load, in    *)
(* either source file.  A transition of the loader renders the model       *)
(* subtree again: Block does not render, no handler and no effect runs.    *)

LoaderStep(state, event) ==
    /\ viewport.state = "loading"
    /\ viewport' = [viewport EXCEPT !.state = state]
    /\ lastEvent' = event
    /\ posted' = <<>>
    /\ UNCHANGED <<gameState, userAnswers, availableLabels, score, results,
                   selectedBone, embedded, replaced, scoreMessage, other>>

LoadSucceeds == LoaderStep("loaded", <<"loadSucceeds">>)

LoadFails == LoaderStep("failed", <<"loadFails">>)

LoaderInit ==
    /\ gameState = "playing"
    /\ userAnswers = EmptyObject
    /\ availableLabels \in Shuffles(boneNames)
    /\ score = 0
    /\ results = EmptyObject
    /\ selectedBone = null
    /\ embedded = TRUE
    /\ posted = CompletionEffect(gameState, score)
    /\ lastEvent = <<"mount">>
    /\ replaced = null
    /\ scoreMessage = ScoreDisplay(Current)
    /\ viewport \in {[variant |-> v, state |-> "loading"] : v \in Variants}
    /\ other = null

\* the label buttons clicked while the model loads: one label fewer than
\* anchors
LoaderLabels == {bones[i].name : i \in 1..(MaxCallBones - 1)}

LoaderNext ==
    \/ \E b \in CallBones : AreaClick(b)
    \/ \E l \in LoaderLabels : LabelClick(l)
    \/ \E b \in CallBones : RemoveClick(b)
    \/ CheckClick
    \/ ResetClick
    \/ LoadSucceeds
    \/ LoadFails

LoaderSpec == LoaderInit /\ [][LoaderNext]_vars

----------------------------------------------------------------------------
(* The two source files side by side: every UI event is given to the       *)
(* Block of block.tsx and to the Block of part_000, with the same outcome  *)
(* of the random shuffle at a replay.                                      *)

PairAreaClick(boneId) ==
    /\ CommitBlock(selectAnchor(Current, Current, boneId), <<"areaClick", boneId>>)
    /\ part000_Commit(part000_selectAnchor(other, other, boneId))

PairSphereClick(boneId) ==
    LET p1 == selectAnchor(Current, Current, boneId)
        p2 == spherePointClick(Current, p1, boneId)
        q1 == part000_selectAnchor(other, other, boneId)
        q2 == part000_spherePointClick(other, q1, boneId)
    IN /\ CommitBlock(p2, <<"sphereClick", boneId>>)
       /\ part000_Commit(q2)

PairLabelClick(label) ==
    /\ selectedBone # null
    /\ \E i \in 1..Len(availableLabels) : availableLabels[i] = label
    /\ CommitBlock(handleLabelClick(Current, Current, label),
                   <<"labelClick", label, JustRemovedFrom(label)>>)
    /\ part000_Commit(part000_handleLabelClick(other, other, label))

PairRemoveClick(boneId) ==
    /\ RemoveButtonRendered(boneId)
    /\ CommitBlock(removeBoneAnswer(Current, Current, boneId),
                   <<"removeClick", boneId, Get(userAnswers, boneId)>>)
    /\ part000_Commit(part000_removeBoneAnswer(other, other, boneId))

PairCheckClick ==
    /\ CheckButtonEnabled
    /\ CommitBlock(checkAnswers(Current, Current), <<"checkClick">>)
    /\ part000_Commit(part000_checkAnswers(other, other))

PairResetClick ==
    /\ gameState = "finished"
    /\ \E shuffled \in Shuffles(boneNames) :
          /\ CommitBlock(resetGame(Current, Current, shuffled), <<"resetClick">>)
          /\ part000_Commit(part000_resetGame(other, other, shuffled))

PairNext ==
    \/ \E b \in CallBones : PairAreaClick(b)
    \/ \E b \in CallBones : PairSphereClick(b)
    \/ \E l \in ClickLabels : PairLabelClick(l)
    \/ \E b \in CallBones : PairRemoveClick(b)
    \/ PairCheckClick
    \/ PairResetClick

\* both Blocks mounted, with the same outcome of the initial shuffle
PairInit ==
    /\ gameState = "playing"
    /\ userAnswers = EmptyObject
    /\ availableLabels \in Shuffles(boneNames)
    /\ score = 0
    /\ results = EmptyObject
    /\ selectedBone = null
    /\ embedded \in BOOLEAN
    /\ posted = CompletionEffect(gameState, score)
    /\ lastEvent = <<"mount">>
    /\ replaced = null
    /\ scoreMessage = ScoreDisplay(Current)
    /\ viewport = [variant |-> "block.tsx", state |-> "loading"]
    /\ other = part000_Initial(availableLabels)

PairSpec == PairInit /\ [][PairNext]_vars

----------------------------------------------------------------------------
(* The handlers called directly, as the operations of the quiz, in any     *)
(* state: without the conditions under which the UI renders and enables    *)
(* the elements that call them.  The event records what the call met.      *)

CallSelectAnchor(boneId) ==
    Commit(selectAnchor(Current, Current, boneId), <<"selectAnchor", boneId>>)

CallHandleLabelClick(label) ==
    /\ \E i \in 1..Len(availableLabels) : availableLabels[i] = label
    /\ Commit(handleLabelClick(Current, Current, label),
              <<"handleLabelClick", label, selectedBone>>)

CallRemoveBoneAnswer(boneId) ==
    Commit(removeBoneAnswer(Current, Current, boneId),
           <<"removeBoneAnswer", boneId, Get(userAnswers, boneId)>>)

CallCheckAnswers ==
    Commit(checkAnswers(Current, Current),
           <<"checkAnswers", gameState, lastEvent[1]>>)

CallResetGame ==
    \E shuffled \in Shuffles(boneNames) :
        Commit(resetGame(Current, Current, shuffled), <<"resetGame", gameState>>)

DirectNext ==
    \/ \E b \in CallBones : CallSelectAnchor(b)
    \/ \E l \in ClickLabels : CallHandleLabelClick(l)
    \/ \E b \in CallBones : CallRemoveBoneAnswer(b)
    \/ CallCheckAnswers
    \/ CallResetGame

DirectSpec == Init /\ [][DirectNext]_vars

\* handleLabelClick called with any label, in the pool or not: the handler
\* takes a string, and only the label buttons keep it to the pool
CallHandleLabelClickAny(label) ==
    Commit(handleLabelClick(Current, Current, label),
           <<"handleLabelClick", label, selectedBone>>)

StrayNext ==
    \/ \E b \in CallBones : CallSelectAnchor(b)
    \/ \E l \in LoaderLabels : CallHandleLabelClickAny(l)
    \/ \E b \in CallBones : CallRemoveBoneAnswer(b)
    \/ CallCheckAnswers

StraySpec == Init /\ [][StrayNext]_vars

----------------------------------------------------------------------------
(* Vocabulary of the properties *)

PoolLabels == {availableLabels[i] : i \in 1..Len(availableLabels)}
AssignedLabels == {userAnswers[b] : b \in DOMAIN userAnswers}

\* how often a label occurs in the pool and in the assignment map together
Occurrences(l) ==
    Cardinality({i \in 1..Len(availableLabels) : availableLabels[i] = l})
    + Cardinality({b \in DOMAIN userAnswers : userAnswers[b] = l})

\* whether the anchor carries its canonical label
Correct(answers, b) == b \in DOMAIN answers /\ answers[b] = NameOf(b)

EventKind == lastEvent[1]

----------------------------------------------------------------------------
(* C1 *)

\* C1: the labels of the pool together with the assigned labels are
\* the 12 canonical labels, each exactly once, in every reachable state.
C1_LabelConservation ==
    /\ PoolLabels \cup AssignedLabels = Labels
    /\ \A l \in Labels : Occurrences(l) = 1

----------------------------------------------------------------------------
(* C2 *)

\* C2: no label that is a value of the assignment map is in the pool.
C2_AssignedNotInPool ==
    \A b \in DOMAIN userAnswers : userAnswers[b] \notin PoolLabels

\* a label was assigned to an anchor that carried another label
C2_Witness ==
    /\ EventKind = "labelClick"
    /\ lastEvent[2] \in AssignedLabels
    /\ \E l \in Labels : Occurrences(l) = 0

----------------------------------------------------------------------------
(* C3 *)

\* C3: checkAnswers gives the result map exactly one boolean per
\* anchor of the fixed set: TRUE iff the anchor carries its canonical label
\* (so FALSE for an anchor without a label).
C3_CheckScoresEveryAnchor ==
    [][ EventKind' = "checkClick" =>
          /\ DOMAIN results' = BoneIds
          /\ \A b \in BoneIds :
                /\ results'[b] \in BOOLEAN
                /\ results'[b] = Correct(userAnswers, b) ]_vars

\* checked with a right label, a wrong label and an anchor without label
C3_Witness ==
    /\ EventKind = "checkClick"
    /\ \E b \in DOMAIN userAnswers : results[b]
    /\ \E b \in DOMAIN userAnswers : ~results[b] /\ userAnswers[b] # NameOf(b)
    /\ \E b \in BoneIds \ DOMAIN userAnswers : ~results[b]

----------------------------------------------------------------------------
(* C4 *)

TrueEntries == {b \in DOMAIN results : results[b] = TRUE}
FalseEntries == {b \in DOMAIN results : results[b] = FALSE}

\* C4: after checkAnswers the score is round(100 * correctCount / 12),
\* correctCount being the number of true result entries; it is an integer
\* of 0..100, and 10 correct anchors of 12 give 83 with 10 true and 2 false
\* entries.
C4_ScoreIsRoundedPercentage ==
    gameState = "finished" =>
        LET correctCount == Cardinality(TrueEntries) IN
        /\ score \in 0..100
        \* score - 1/2 <= 100 * correctCount / 12 < score + 1/2
        /\ 24 * score - 12 <= 200 * correctCount
        /\ 200 * correctCount < 24 * score + 12
        /\ correctCount = 10 =>
              score = 83 /\ Cardinality(FalseEntries) = 2

\* all anchors labelled, two labels swapped, checked
C4_Witness ==
    /\ EventKind = "checkClick"
    /\ DOMAIN userAnswers = BoneIds
    /\ \E a, b \in BoneIds :
          /\ a # b
          /\ userAnswers[a] = NameOf(b)
          /\ userAnswers[b] = NameOf(a)
    /\ Cardinality(TrueEntries) = 10
    /\ Cardinality(FalseEntries) = 2
    /\ score = 83

----------------------------------------------------------------------------
(* C5 *)

AnchorOrLabelEvents == {"areaClick", "sphereClick", "labelClick", "removeClick"}

\* C5: the phase is always playing or finished and starts as playing;
\* it goes from playing to finished only by checkAnswers, from finished to
\* playing only by reset; selecting, assigning and removing never change it.
C5_PhaseTransitions ==
    /\ gameState = "playing"
    /\ [](gameState \in {"playing", "finished"})
    /\ [][ /\ (gameState = "playing" /\ gameState' = "finished")
                => EventKind' = "checkClick"
           /\ (gameState = "finished" /\ gameState' = "playing")
                => EventKind' = "resetClick"
           /\ EventKind' \in AnchorOrLabelEvents => gameState' = gameState ]_vars

\* a second game was checked: the phase has gone both ways
C5_Witness ==
    /\ EventKind = "resetClick"
    /\ gameState = "playing"

----------------------------------------------------------------------------
(* C6 *)

PostedTo(target) == {i \in 1..Len(posted) : posted[i].target = target}

\* C6: every checkAnswers emits exactly one completion notification
\* (one message for each of its two targets) that carries completed = true,
\* maxScore = 100 and the score of that call; no other operation emits one.
C6_OneCompletionPerCheck ==
    /\ EventKind = "checkClick" =>
          /\ Len(posted) = 2
          /\ Cardinality(PostedTo("window")) = 1
          /\ Cardinality(PostedTo("window.parent")) = 1
          /\ \A i \in 1..Len(posted) :
                /\ posted[i].data.type = "BLOCK_COMPLETION"
                /\ posted[i].data.completed = TRUE
                /\ posted[i].data.maxScore = 100
                /\ posted[i].data.score = score
    /\ EventKind # "checkClick" => posted = <<>>

\* a check with a score above 0 has posted its notification
C6_Witness ==
    /\ EventKind = "checkClick"
    /\ score > 0
    /\ posted # <<>>

\* the finished block was rendered again and posted nothing
C6_WitnessRerender ==
    /\ EventKind = "rerender"
    /\ gameState = "finished"
    /\ posted = <<>>

----------------------------------------------------------------------------
(* C7 *)

ReceivedBy(context) == {i \in 1..Len(posted) : posted[i].to = context}

EnclosingContext == IF embedded THEN "host" ELSE "document"

\* C7: of each completion notification the current document receives
\* the message exactly once and the enclosing context receives it exactly
\* once, in a frame as well as in a top-level page.
C7_OncePerContext ==
    posted # <<>> =>
        /\ Cardinality(ReceivedBy("document")) = 1
        /\ Cardinality(ReceivedBy(EnclosingContext)) = 1

----------------------------------------------------------------------------
(* C8 *)

----------------------------------------------------------------------------
(* C9 *)

\* C9: assignLabel(label) with a pending anchor p, in phase playing,
\* label in the pool: p carries label, label has left the pool, nothing is
\* pending; the other anchors' labels, the results, the score and the phase
\* are as before.
C9_AssignLabelEffect ==
    [][ ( /\ EventKind' = "labelClick"
          /\ selectedBone # null
          /\ gameState = "playing"
          /\ lastEvent'[2] \in PoolLabels )
        => LET label == lastEvent'[2]
               pending == selectedBone
           IN /\ pending \in DOMAIN userAnswers'
              /\ userAnswers'[pending] = label
              /\ label \notin {availableLabels'[i] : i \in 1..Len(availableLabels')}
              /\ {availableLabels'[i] : i \in 1..Len(availableLabels')}
                    = PoolLabels \ {label}
              /\ selectedBone' = null
              /\ \A b \in BoneIds \ {pending} :
                    Get(userAnswers', b) = Get(userAnswers, b)
              /\ results' = results
              /\ score' = score
              /\ gameState' = gameState ]_vars

\* a label was assigned while another anchor carried one
C9_Witness ==
    /\ EventKind = "labelClick"
    /\ gameState = "playing"
    /\ selectedBone = null
    /\ lastEvent[2] \in AssignedLabels
    /\ Cardinality(DOMAIN userAnswers) >= 2

----------------------------------------------------------------------------
(* C10 *)

\* C10: selectAnchor in phase playing makes the given anchor the
\* pending selection, whatever was pending before; the label assigned next
\* goes to that anchor, and the anchor selected before it receives nothing.
C10_LastSelectionWins ==
    [][ /\ (EventKind' = "areaClick" /\ gameState = "playing")
             => /\ selectedBone' = lastEvent'[2]
                /\ replaced' = selectedBone
        /\ (EventKind' = "labelClick" /\ gameState = "playing"
              /\ selectedBone # null)
             => /\ userAnswers' = Put(userAnswers, selectedBone, lastEvent'[2])
                /\ replaced # selectedBone
                      => Get(userAnswers', replaced) = Get(userAnswers, replaced) ]_vars

\* anchor a was selected, then anchor b, then a label: b carries it, a none
C10_Witness ==
    /\ EventKind = "labelClick"
    /\ replaced # null
    /\ replaced \notin DOMAIN userAnswers
    /\ \E b \in DOMAIN userAnswers :
          /\ b # replaced
          /\ userAnswers[b] = lastEvent[2]

----------------------------------------------------------------------------
\* the six state variables of the quiz keep their values in a step
QuizUnchanged ==
    UNCHANGED <<gameState, userAnswers, availableLabels, score, results,
                selectedBone>>

\* C11: a call of handleLabelClick made while no anchor is selected, or
\* while the game is finished, changes none of the six state variables and
\* posts nothing.
C11_AssignLabelNoOp ==
    [][ ( /\ EventKind' = "handleLabelClick"
          /\ (selectedBone = null \/ gameState = "finished") )
        => (QuizUnchanged /\ posted' = <<>>) ]_vars

\* a label of the pool was clicked in a finished game while an anchor was
\* still selected: the anchor is still selected, the label is in the pool
C11_Witness ==
    /\ EventKind = "handleLabelClick"
    /\ gameState = "finished"
    /\ lastEvent[3] # null
    /\ selectedBone = lastEvent[3]
    /\ lastEvent[2] \in PoolLabels
    /\ lastEvent[2] \notin AssignedLabels

\* a label of the pool was clicked in a running game with no anchor selected
C11_WitnessNoSelection ==
    /\ EventKind = "handleLabelClick"
    /\ gameState = "playing"
    /\ lastEvent[3] = null
    /\ lastEvent[2] \in PoolLabels
    /\ DOMAIN userAnswers = {}

\* C12: a click on the selection area of an anchor in a finished game
\* changes none of the six state variables (the pending selection included)
\* and posts nothing.
C12_SelectIgnoredWhenFinished ==
    [][ (EventKind' = "areaClick" /\ gameState = "finished")
        => (QuizUnchanged /\ posted' = <<>>) ]_vars

\* an anchor was clicked in a finished game while another one was selected
C12_Witness ==
    /\ EventKind = "areaClick"
    /\ gameState = "finished"
    /\ selectedBone # null
    /\ selectedBone # lastEvent[2]

\* C13: in a finished game a click on the sphere of an anchor, or on a
\* remove button, changes none of the six state variables, and whatever
\* happens while the game stays finished leaves the assignment map and the
\* pool as they are.
C13_NoRemovalWhenFinished ==
    [][ /\ (gameState = "finished" /\ EventKind' \in {"sphereClick", "removeClick"})
            => QuizUnchanged
        /\ (gameState = "finished" /\ gameState' = "finished")
            => /\ userAnswers' = userAnswers
               /\ availableLabels' = availableLabels ]_vars

\* the sphere of a labelled anchor was clicked in a finished game: the
\* anchor has its label and its result
C13_Witness ==
    /\ EventKind = "sphereClick"
    /\ gameState = "finished"
    /\ lastEvent[2] \in DOMAIN userAnswers
    /\ lastEvent[2] \in DOMAIN results

\* how many times the label is in the pool
PoolCount(l) ==
    Cardinality({i \in 1..Len(availableLabels) : availableLabels[i] = l})

\* the pool is in the order of Array.prototype.sort()
PoolSorted ==
    \A i, j \in 1..Len(availableLabels) :
        i < j => ~StringLess(availableLabels[j], availableLabels[i])

\* C14: in a running game removeBoneAnswer(a) on an anchor that holds a
\* label l deletes the entry of a and nothing else of the assignment map,
\* adds l once to the pool and leaves the whole pool sorted, and keeps the
\* pending selection, the phase, the score and the results; on an anchor
\* without a label it changes nothing.
C14_RemoveEffect ==
    [][ (EventKind' = "removeBoneAnswer" /\ gameState = "playing")
        => LET a == lastEvent'[2]
               l == Get(userAnswers, a)
           IN IF l # undefined
              THEN /\ DOMAIN userAnswers' = DOMAIN userAnswers \ {a}
                   /\ \A b \in DOMAIN userAnswers' :
                          userAnswers'[b] = userAnswers[b]
                   /\ \A x \in Labels :
                          PoolCount(x)' = PoolCount(x) + (IF x = l THEN 1 ELSE 0)
                   /\ PoolSorted'
                   /\ UNCHANGED <<selectedBone, gameState, score, results>>
              ELSE QuizUnchanged ]_vars

\* a label was taken off an anchor while another anchor was selected and
\* another one labelled: the label is back in the sorted pool
C14_Witness ==
    /\ EventKind = "removeBoneAnswer"
    /\ gameState = "playing"
    /\ lastEvent[3] # undefined
    /\ lastEvent[3] \in PoolLabels
    /\ lastEvent[2] \notin DOMAIN userAnswers
    /\ DOMAIN userAnswers # {}
    /\ selectedBone \notin {null, lastEvent[2]}
    /\ PoolSorted

\* removeBoneAnswer was called on an anchor without a label: the pool is
\* still in its shuffled order
C14_WitnessNoLabel ==
    /\ EventKind = "removeBoneAnswer"
    /\ gameState = "playing"
    /\ lastEvent[3] = undefined
    /\ DOMAIN userAnswers # {}
    /\ ~PoolSorted

\* map is the assignment map before, with the anchor a given the label l
WithEntry(map, before, a, l) ==
    /\ DOMAIN map = DOMAIN before \cup {a}
    /\ map[a] = l
    /\ \A b \in DOMAIN before \ {a} : map[b] = before[b]

\* C15: in a running game, a click on the x button of an anchor a holding
\* the label l, followed immediately by a click on the label l, gives back
\* the assignment map and the set of pool labels of before the removal,
\* whatever the pending selection is.
C15_RoundTrip ==
    [][ /\ EventKind' = "removeClick"
            => /\ lastEvent'[2] \notin DOMAIN userAnswers'
               /\ WithEntry(userAnswers, userAnswers', lastEvent'[2], lastEvent'[3])
               /\ lastEvent'[3] \notin PoolLabels
               /\ PoolLabels' = PoolLabels \cup {lastEvent'[3]}
        /\ ( /\ EventKind = "removeClick"
             /\ EventKind' = "labelClick"
             /\ lastEvent'[2] = lastEvent[3] )
            => /\ WithEntry(userAnswers', userAnswers, lastEvent[2], lastEvent[3])
               /\ PoolLabels' = PoolLabels \ {lastEvent[3]} ]_vars

\* C15, amended: the same round trip gives back the assignment map and the
\* set of pool labels when the anchor a is the pending selection at the
\* moment the label is clicked.
C15_RoundTripOnSelectedAnchor ==
    [][ /\ EventKind' = "removeClick"
            => /\ lastEvent'[2] \notin DOMAIN userAnswers'
               /\ WithEntry(userAnswers, userAnswers', lastEvent'[2], lastEvent'[3])
               /\ lastEvent'[3] \notin PoolLabels
               /\ PoolLabels' = PoolLabels \cup {lastEvent'[3]}
        /\ ( /\ EventKind = "removeClick"
             /\ EventKind' = "labelClick"
             /\ lastEvent'[2] = lastEvent[3]
             /\ selectedBone = lastEvent[2] )
            => /\ WithEntry(userAnswers', userAnswers, lastEvent[2], lastEvent[3])
               /\ PoolLabels' = PoolLabels \ {lastEvent[3]} ]_vars

\* the label taken off the selected anchor by its x button was clicked
\* right after: the anchor holds it again, another anchor holds its own
C15_Witness ==
    /\ EventKind = "labelClick"
    /\ gameState = "playing"
    /\ lastEvent[3] # null
    /\ lastEvent[3] \in DOMAIN userAnswers
    /\ userAnswers[lastEvent[3]] = lastEvent[2]
    /\ DOMAIN userAnswers # {lastEvent[3]}

\* the label taken off an anchor by its x button was clicked right after
\* while another anchor was selected: the other anchor holds it
C15_WitnessOtherAnchor ==
    /\ EventKind = "labelClick"
    /\ gameState = "playing"
    /\ lastEvent[3] # null
    /\ lastEvent[3] \notin DOMAIN userAnswers
    /\ lastEvent[2] \in AssignedLabels

\* C16: a click on the selection area of an anchor leaves the assignment
\* map and the pool as they are, the label of the clicked anchor included,
\* and the phase, the score and the results; in a running game it makes the
\* clicked anchor the pending selection.
C16_SelectKeepsLabel ==
    [][ EventKind' = "areaClick"
        => /\ userAnswers' = userAnswers
           /\ availableLabels' = availableLabels
           /\ UNCHANGED <<gameState, score, results>>
           /\ gameState = "playing" => selectedBone' = lastEvent'[2] ]_vars

\* a labelled anchor that was not selected was clicked in a running game:
\* it is selected and holds its label, which is not in the pool
C16_Witness ==
    /\ EventKind = "areaClick"
    /\ gameState = "playing"
    /\ selectedBone = lastEvent[2]
    /\ replaced # selectedBone
    /\ selectedBone \in DOMAIN userAnswers
    /\ userAnswers[selectedBone] \notin PoolLabels

\* C17: a call of checkAnswers made right after a call of checkAnswers
\* leaves the score and the result map as the first call made them, and
\* the game finished.
C17_CheckIdempotent ==
    [][ (EventKind = "checkAnswers" /\ EventKind' = "checkAnswers")
        => /\ gameState = "finished"
           /\ gameState' = "finished"
           /\ score' = score
           /\ results' = results ]_vars

\* checkAnswers was called in a finished game right after checkAnswers, in
\* a game with a correct answer
C17_Witness ==
    /\ lastEvent = <<"checkAnswers", "finished", "checkAnswers">>
    /\ gameState = "finished"
    /\ score > 0
    /\ \E b \in DOMAIN userAnswers : results[b]
    /\ \E b \in BoneIds : ~results[b]

\* C18: a call of checkAnswers made while the assignment map is empty
\* finishes the game with score 0 and a result map of 12 entries, one per
\* anchor, all false.
C18_CheckEmptyMap ==
    [][ (EventKind' = "checkAnswers" /\ DOMAIN userAnswers = {})
        => /\ gameState' = "finished"
           /\ score' = 0
           /\ DOMAIN results' = BoneIds
           /\ Cardinality(DOMAIN results') = 12
           /\ \A b \in BoneIds : results'[b] = FALSE ]_vars

\* checkAnswers was called in a running game with no label placed: the
\* game is finished with score 0 and the completion is posted
C18_Witness ==
    /\ EventKind = "checkAnswers"
    /\ lastEvent[2] = "playing"
    /\ DOMAIN userAnswers = {}
    /\ gameState = "finished"
    /\ score = 0
    /\ posted # <<>>
    /\ \A i \in 1..Len(posted) : posted[i].data.score = 0

\* C19: in every reachable state the result map is empty while the game is
\* running, and while it is finished the map has exactly one entry per
\* anchor, true exactly when the label the anchor holds now is its own.
C19_ResultsMatchAnswers ==
    /\ gameState = "playing" => DOMAIN results = {}
    /\ gameState = "finished"
        => /\ DOMAIN results = BoneIds
           /\ \A b \in BoneIds : results[b] = Correct(userAnswers, b)

\* the sphere of a rightly labelled anchor was clicked in a finished game
\* that has a wrongly labelled anchor too
C19_Witness ==
    /\ gameState = "finished"
    /\ EventKind = "sphereClick"
    /\ lastEvent[2] \in DOMAIN userAnswers
    /\ userAnswers[lastEvent[2]] = NameOf(lastEvent[2])
    /\ results[lastEvent[2]] = TRUE
    /\ \E b \in DOMAIN userAnswers : userAnswers[b] # NameOf(b) /\ results[b] = FALSE

\* C20: the message shown for a score of 0..100 is the one of the first
\* tier the score reaches, the thresholds 90, 75, 60 and 40 included, and
\* the lowest message below 40; a check of 12 correct answers gives the
\* score 100 and the message of the tier of 90.
C20_MessageTiers ==
    /\ gameState = "finished" =>
        /\ score \in 0..100
        /\ score >= 90
            => scoreMessage = MessageExcellent
        /\ (score >= 75 /\ score < 90)
            => scoreMessage = MessageTresBien
        /\ (score >= 60 /\ score < 75)
            => scoreMessage = MessageBien
        /\ (score >= 40 /\ score < 60)
            => scoreMessage = MessagePassable
        /\ score < 40
            => scoreMessage = MessageEtudier
    /\ LET allCorrect == [b \in BoneIds |-> NameOf(b)]
           checked == checkAnswers([Current EXCEPT !.userAnswers = allCorrect], Current)
       IN /\ Cardinality(DOMAIN allCorrect) = 12
          /\ checked.score = 100
          /\ ScoreDisplay(checked)
                 = MessageExcellent

\* the finished screen was rendered again with a score on a threshold
C20_Witness ==
    /\ EventKind = "rerender"
    /\ gameState = "finished"
    /\ score = 90
    /\ scoreMessage = MessageExcellent

\* C21: in both source files and in every state of the model loader each
\* quiz operation can be done whenever the quiz state allows it (the anchors
\* are in the scene, the buttons are enabled), and has its effect: an anchor click selects, a label click assigns, a click on
\* x removes, the check scores every anchor and finishes, the replay
\* restarts; a transition of the loader, its failure included, changes no
\* state variable of the quiz and posts nothing.
C21_QuizIndependentOfLoader ==
    [][ /\ \A b \in CallBones : ENABLED AreaClick(b)
        /\ \A l \in LoaderLabels :
               (selectedBone # null /\ l \in PoolLabels) => ENABLED LabelClick(l)
        /\ \A b \in CallBones :
               (gameState = "playing" /\ b \in DOMAIN userAnswers)
                   => RemoveButtonRendered(b)
        /\ (gameState = "playing" /\ DOMAIN userAnswers # {}) => CheckButtonEnabled
        /\ gameState = "finished" => ENABLED ResetClick
        /\ viewport' # viewport => (QuizUnchanged /\ posted' = <<>>)
        /\ (EventKind' = "areaClick" /\ gameState = "playing")
            => selectedBone' = lastEvent'[2]
        /\ (EventKind' = "labelClick" /\ gameState = "playing")
            => /\ selectedBone \in DOMAIN userAnswers'
               /\ userAnswers'[selectedBone] = lastEvent'[2]
               /\ selectedBone' = null
        /\ EventKind' = "removeClick"
            => /\ lastEvent'[2] \notin DOMAIN userAnswers'
               /\ lastEvent'[3] \in PoolLabels'
        /\ EventKind' = "checkClick"
            => /\ gameState' = "finished"
               /\ \A b \in BoneIds : results'[b] = Correct(userAnswers, b)
               /\ 24 * score' - 12 <= 200 * Cardinality(TrueEntries')
               /\ 200 * Cardinality(TrueEntries') < 24 * score' + 12
               /\ posted' # <<>>
        /\ EventKind' = "resetClick"
            => /\ gameState' = "playing"
               /\ DOMAIN userAnswers' = {}
               /\ score' = 0 ]_vars

\* the load failed and after that the game was played and checked with a
\* correct answer: it is scored and the completion is posted
C21_Witness ==
    /\ viewport.state = "failed"
    /\ EventKind = "checkClick"
    /\ gameState = "finished"
    /\ score > 0
    /\ \E b \in DOMAIN userAnswers : results[b]
    /\ posted # <<>>

\* the same in part_000 while the model is still loading
C21_WitnessLoading ==
    /\ viewport = [variant |-> "part_000", state |-> "loading"]
    /\ EventKind = "checkClick"
    /\ gameState = "finished"
    /\ score > 0
    /\ posted # <<>>

C22_StrayLabelAssigned ==
    /\ EventKind = "handleLabelClick"
    /\ gameState = "playing"
    /\ lastEvent[3] # null
    /\ selectedBone = null
    /\ lastEvent[2] \notin PoolLabels
    /\ \E a, b \in DOMAIN userAnswers :
          /\ a # b
          /\ userAnswers[a] = lastEvent[2]
          /\ userAnswers[b] = lastEvent[2]

\* C23: given the same UI events and the same outcomes of the shuffle, the
\* Block of block.tsx and the Block of part_000 are always in the same
\* phase, with the same assignment map, the same pool, the same pending
\* selection, the same result map and the same score, and their last
\* commits posted the same completion messages.
C23_VariantsAgree ==
    /\ other.gameState = gameState
    /\ other.userAnswers = userAnswers
    /\ other.availableLabels = availableLabels
    /\ other.selectedBone = selectedBone
    /\ other.results = results
    /\ other.score = score
    /\ other.posted = posted

\* both files have finished a game with a wrong answer after a removal and
\* posted the completion
C23_Witness ==
    /\ EventKind = "checkClick"
    /\ other.gameState = "finished"
    /\ gameState = "finished"
    /\ other.posted # <<>>
    /\ PoolSorted
    /\ \E b \in DOMAIN other.userAnswers : ~other.results[b]

\* C24: in every state the UI can reach, the assignment map is injective:
\* no two anchors carry the same label.
C24_AssignmentInjective ==
    \A b1, b2 \in DOMAIN userAnswers :
        userAnswers[b1] = userAnswers[b2] => b1 = b2

\* two anchors are labelled, the second with a label that the x button had
\* just taken off another anchor
C24_Witness ==
    /\ EventKind = "labelClick"
    /\ lastEvent[3] # null
    /\ Cardinality(DOMAIN userAnswers) >= 2

\* C25: a click on the check button leaves the assignment map, the pool and
\* the pending selection as they were; and in the finished phase the pending
\* selection changes only by the replay button, which clears it.
C25_CheckKeepsSelection ==
    [][ /\ EventKind' = "checkClick" =>
            UNCHANGED <<userAnswers, availableLabels, selectedBone>>
        /\ (gameState = "finished" /\ selectedBone' # selectedBone) =>
            (EventKind' = "resetClick" /\ selectedBone' = null) ]_vars

\* a game was checked with an anchor selected and some anchors labelled: it
\* is finished and the selection is still there
C25_Witness ==
    /\ EventKind = "checkClick"
    /\ gameState = "finished"
    /\ selectedBone # null
    /\ selectedBone \notin DOMAIN userAnswers
    /\ DOMAIN userAnswers # {}
    /\ availableLabels # <<>>

\* the replay button was pressed on a finished game: no selection is left
C25_WitnessReset ==
    /\ EventKind = "resetClick"
    /\ selectedBone = null
    /\ gameState = "playing"

============================================================================
